---- MODULE Spec2Model ----
(***************************************************************************)
(* Model of "Project Portfolio/script.js": a static portfolio page that    *)
(* fetches data.json, sorts the projects by date, filters them through     *)
(* five controls, renders cards, converts a markdown subset to HTML and    *)
(* builds an RSS feed.                                                     *)
(*                                                                         *)
(* Strings are sequences of one-character strings, so that lower-casing,   *)
(* trimming, substring search, escaping and the regular-expression         *)
(* rewrites are computed character by character as the script does.        *)
(***************************************************************************)
EXTENDS Integers, Sequences, FiniteSets, TLC

\* ------------------------------------------------------------------------
\* Bounds of the model
\* ------------------------------------------------------------------------

\* Longest data.projects array enumerated exhaustively over Catalog.
MaxProjects == 3

\* Longest markdown line built from InlineTokens.
MaxInline == 4

\* Longest link text of the markdown links enumerated.
MaxText == 2

\* Most lines of the markdown documents built from LineKinds.
MaxLines == 3

\* ------------------------------------------------------------------------
\* String helpers (String.prototype methods used by the script)
\* ------------------------------------------------------------------------

Min(S) == CHOOSE x \in S : \A y \in S : x <= y

Max(S) == CHOOSE x \in S : \A y \in S : x >= y

\* Whitespace as String.prototype.trim sees it (the characters the model uses).
IsSpace(c) == c \in {" ", "\t", "\r", "\n"}

LowerChar(c) ==
  CASE c = "A" -> "a"
    [] c = "B" -> "b"
    [] OTHER -> c

toLowerCase(s) == [i \in 1..Len(s) |-> LowerChar(s[i])]

trimEnd(s) ==
  LET keep == {i \in 1..Len(s) : ~IsSpace(s[i])}
  IN IF keep = {} THEN <<>> ELSE SubSeq(s, 1, Max(keep))

trimStart(s) ==
  LET keep == {i \in 1..Len(s) : ~IsSpace(s[i])}
  IN IF keep = {} THEN <<>> ELSE SubSeq(s, Min(keep), Len(s))

trim(s) == trimStart(trimEnd(s))

\* s.startsWith(pre, from): pre occurs in s at 1-based position from.
StartsWithAt(s, pre, from) ==
  /\ from + Len(pre) - 1 <= Len(s)
  /\ \A k \in 1..Len(pre) : s[from + k - 1] = pre[k]

startsWith(s, pre) == StartsWithAt(s, pre, 1)

\* hay.includes(needle)
includes(hay, needle) ==
  \E i \in 1..(Len(hay) - Len(needle) + 1) : StartsWithAt(hay, needle, i)

RECURSIVE join(_, _)
\* Array.prototype.join: the parts separated by sep.
join(parts, sep) ==
  IF parts = <<>> THEN <<>>
  ELSE IF Len(parts) = 1 THEN parts[1]
  ELSE parts[1] \o sep \o join(Tail(parts), sep)

\* normalize without the lower-casing: a case-sensitive search.
normalizeCaseSensitive(s) == trim(s)

\* normalize(s): (s || "").toLowerCase().trim(); an absent string is <<>>.
normalize(s) == trim(toLowerCase(s))

\* ------------------------------------------------------------------------
\* mdToHtml: esc, inline
\* ------------------------------------------------------------------------

RECURSIVE replaceAll(_, _, _)
\* str.replace(/c/g, by) for a one-character pattern c.
replaceAll(s, c, by) ==
  IF s = <<>> THEN <<>>
  ELSE (IF Head(s) = c THEN by ELSE <<Head(s)>>) \o replaceAll(Tail(s), c, by)

\* esc with the replacement of "<" left out.
escWithoutLt(str) ==
  replaceAll(replaceAll(replaceAll(str, "&", <<"&", "a", "m", "p", ";">>), ">", <<"&", "g", "t", ";">>), "\"", <<"&", "q", "u", "o", "t", ";">>)

\* esc: & first, then <, > and ".
esc(str) ==
  replaceAll(replaceAll(replaceAll(replaceAll(str, "&", <<"&", "a", "m", "p", ";">>), "<", <<"&", "l", "t", ";">>),
                        ">", <<"&", "g", "t", ";">>), "\"", <<"&", "q", "u", "o", "t", ";">>)

\* The first position >= from where s holds c, 0 when there is none.
IndexFrom(s, c, from) ==
  LET at == {i \in from..Len(s) : s[i] = c}
  IN IF at = {} THEN 0 ELSE Min(at)

\* The backtick character (a string literal cannot hold one).
Backtick == "BACKTICK"

RECURSIVE codeFrom(_, _)
\* The inline-code rewrite, s.replace(/BACKTICK([^BACKTICK]+)BACKTICK/g,
\* "<code>$1</code>"), from position i on: a backtick, one or more characters
\* that are no backtick, a backtick.
codeFrom(s, i) ==
  IF i > Len(s) THEN <<>>
  ELSE LET close == IndexFrom(s, Backtick, i + 1)
       IN IF s[i] = Backtick /\ close > i + 1
          THEN <<"<", "c", "o", "d", "e", ">">> \o SubSeq(s, i + 1, close - 1) \o <<"<", "/", "c", "o", "d", "e", ">">>
               \o codeFrom(s, close + 1)
          ELSE <<s[i]>> \o codeFrom(s, i + 1)

\* The url test of the link rewrite.
safeUrl(u) ==
  \/ startsWith(u, <<"h", "t", "t", "p", ":", "/", "/">>)
  \/ startsWith(u, <<"h", "t", "t", "p", "s", ":", "/", "/">>)
  \/ startsWith(u, <<"/">>)
  \/ startsWith(u, <<".", "/">>)
  \/ startsWith(u, <<".", ".", "/">>)

\* The callback of the link rewrite: the replacement for one [text](url).
linkReplacement(text, url) ==
  LET u == trim(url)
  IN IF ~safeUrl(u) THEN esc(text)
     ELSE <<"<", "a", " ", "h", "r", "e", "f", "=", "\"">> \o esc(u) \o <<"\"", " ", "t", "a", "r", "g", "e", "t", "=", "\"", "_", "b", "l", "a", "n", "k", "\"", " ", "r", "e", "l", "=", "\"", "n", "o", "r", "e", "f", "e", "r", "r", "e", "r", "\"", ">">> \o esc(text) \o <<"<", "/", "a", ">">>

RECURSIVE linkFrom(_, _)
\* s.replace(/\[([^\]]+)\]\(([^)]+)\)/g, callback) from position i on.
linkFrom(s, i) ==
  IF i > Len(s) THEN <<>>
  ELSE LET rb == IndexFrom(s, "]", i + 1)
           rp == IF rb = 0 THEN 0 ELSE IndexFrom(s, ")", rb + 2)
       IN IF /\ s[i] = "["
             /\ rb > i + 1
             /\ rb + 1 <= Len(s)
             /\ s[rb + 1] = "("
             /\ rp > rb + 2
          THEN linkReplacement(SubSeq(s, i + 1, rb - 1), SubSeq(s, rb + 2, rp - 1))
               \o linkFrom(s, rp + 1)
          ELSE <<s[i]>> \o linkFrom(s, i + 1)

\* inline(str): escape, then the inline-code rewrite, then the link rewrite.
inline(str) == linkFrom(codeFrom(esc(str), 1), 1)

\* ------------------------------------------------------------------------
\* mdToHtml: lines and blocks
\* ------------------------------------------------------------------------

RECURSIVE replaceCrLf(_)
\* md.replace(/\r\n/g, "\n")
replaceCrLf(s) ==
  IF s = <<>> THEN <<>>
  ELSE IF Len(s) >= 2 /\ s[1] = "\r" /\ s[2] = "\n"
       THEN <<"\n">> \o replaceCrLf(SubSeq(s, 3, Len(s)))
       ELSE <<Head(s)>> \o replaceCrLf(Tail(s))

RECURSIVE split(_, _)
\* s.split(c): always at least one part.
split(s, c) ==
  LET at == IndexFrom(s, c, 1)
  IN IF at = 0 THEN <<s>>
     ELSE <<SubSeq(s, 1, at - 1)>> \o split(SubSeq(s, at + 1, Len(s)), c)

\* The characters "." does not match.
IsLineTerminator(c) == c \in {"\n", "\r"}

\* The capture of /^<marker>\s+(.*)$/ on line as a one-element set, {} when
\* the line does not match: the marker, whitespace, then the rest up to the
\* end of the line.
markerMatch(line, marker) ==
  LET after == SubSeq(line, Len(marker) + 1, Len(line))
      rest == trimStart(after)
  IN IF /\ startsWith(line, marker)
        /\ Len(rest) < Len(after)
        /\ \A k \in 1..Len(rest) : ~IsLineTerminator(rest[k])
     THEN {rest} ELSE {}

\* line.match(/^###\s+(.*)$/), /^##\s+(.*)$/, /^#\s+(.*)$/
h3Match(line) == markerMatch(line, <<"#", "#", "#">>)

h2Match(line) == markerMatch(line, <<"#", "#">>)

h1Match(line) == markerMatch(line, <<"#">>)

\* line.match(/^[-*]\s+(.*)$/)
liMatch(line) == markerMatch(line, <<"-">>) \cup markerMatch(line, <<"*">>)

\* line.trim().replace(/^>\s?/, ""): ">" and at most one whitespace removed.
quoteText(line) ==
  LET t == trim(line)
  IN IF Len(t) >= 2 /\ IsSpace(t[2]) THEN SubSeq(t, 3, Len(t))
     ELSE SubSeq(t, 2, Len(t))

\* closeList never emitting "</ul>".
closeListForgetful(o, open) == o

\* closeList(): out after it ran (inList is FALSE afterwards).
closeList(o, open) == IF open THEN Append(o, <<"<", "/", "u", "l", ">">>) ELSE o

wrap(open, body, close) == open \o body \o close

\* ------------------------------------------------------------------------
\* Projects and data.json
\* ------------------------------------------------------------------------

Proj(title, description, tags, date, isDraft, isArchived, isPrivate) ==
  [title |-> title, description |-> description, tags |-> tags, date |-> date,
   isDraft |-> isDraft, isArchived |-> isArchived, isPrivate |-> isPrivate]

\* The projects data.json is drawn from. An absent title, description or date
\* is the empty string (the script reads each through `|| ""` or a truthiness
\* test, and Array.prototype.join writes undefined as the empty string).
\* Dates are ISO strings, free text the script may fail to parse ("soon").
Catalog ==
  { Proj(<<"A">>, <<"b">>, << <<"x">> >>, "1970-01-03", FALSE, FALSE, FALSE),
    Proj(<<"B">>, <<"a", " ", "b">>, << <<"x">>, <<"B">> >>, "1970-01-03", TRUE, FALSE, FALSE),
    Proj(<<>>, <<"A">>, <<>>, "", FALSE, TRUE, FALSE),
    Proj(<<"a">>, <<>>, << <<"B">> >>, "soon", FALSE, FALSE, TRUE),
    Proj(<<"A", "b">>, <<"B">>, <<>>, "1969-12-31", TRUE, TRUE, TRUE) }

\* What the user can type into the search box.
SearchValues ==
  { <<>>, <<"a", "b">>, <<" ", "B", " ", "x">> }

SeqsUpTo(S, n) == UNION {[1..k -> S] : k \in 0..n}

\* The arrays of at most n entries of S, no entry twice.
DistinctSeqs(S, n) ==
  {s \in SeqsUpTo(S, n) : \A i, j \in 1..Len(s) : i # j => s[i] # s[j]}

\* items.slice(0, 30) in makeRSS
RssLimit == 30

\* Arrays longer than the feed's limit: RssLimit copies of p followed by q.
LongData ==
  {[i \in 1..(RssLimit + 1) |-> IF i <= RssLimit THEN p ELSE q] : p, q \in Catalog}

\* The values data.projects can take: every array of at most MaxProjects
\* different projects, and the long arrays (which repeat a project).
DataSets == DistinctSeqs(Catalog, MaxProjects) \cup LongData

\* The lengths data.projects can have.
DataLengths == {Len(d) : d \in DataSets}

\* ------------------------------------------------------------------------
\* Dates and the sort of init
\* ------------------------------------------------------------------------

Num(n) == [nan |-> FALSE, ms |-> n]

NaN == [nan |-> TRUE, ms |-> 0]

\* new Date(iso).getTime(): milliseconds since the epoch (date-only ISO strings
\* are UTC), NaN for a string Date cannot parse.
getTime(iso) ==
  CASE iso = "1970-01-03" -> Num(172800000)
    [] iso = "1969-12-31" -> Num(-86400000)
    [] OTHER -> NaN

\* a.date ? new Date(a.date).getTime() : 0
dateKey(p) == IF p.date # "" THEN getTime(p.date) ELSE Num(0)

\* The comparator of init's sort: bd - ad, NaN when either operand is NaN.
compareFn(a, b) ==
  LET ad == dateKey(a)
      bd == dateKey(b)
  IN IF ad.nan \/ bd.nan THEN NaN ELSE Num(bd.ms - ad.ms)

\* SortCompare of Array.prototype.sort: a NaN result of the comparator is +0.
SortCompare(a, b) ==
  LET v == compareFn(a, b) IN IF v.nan THEN 0 ELSE v.ms

Range(s) == {s[i] : i \in 1..Len(s)}

\* Whether the comparator is a consistent comparator for the elements of s
\* (ECMAScript, Array.prototype.sort): otherwise the order is
\* implementation-defined.
ConsistentComparator(s) ==
  \A a, b, c \in Range(s) :
    /\ (SortCompare(a, b) = 0 /\ SortCompare(b, c) = 0) => SortCompare(a, c) = 0
    /\ (SortCompare(a, b) < 0 /\ SortCompare(b, c) < 0) => SortCompare(a, c) < 0
    /\ (SortCompare(a, b) > 0 /\ SortCompare(b, c) > 0) => SortCompare(a, c) > 0
    /\ (SortCompare(a, b) = 0) <=> (SortCompare(b, a) = 0)
    /\ (SortCompare(a, b) < 0) <=> (SortCompare(b, a) > 0)

RECURSIVE InsertSorted(_, _)
\* x placed after every element it does not strictly precede (stable).
InsertSorted(sorted, x) ==
  IF sorted = <<>> THEN <<x>>
  ELSE IF SortCompare(x, Head(sorted)) < 0 THEN <<x>> \o sorted
  ELSE <<Head(sorted)>> \o InsertSorted(Tail(sorted), x)

RECURSIVE StableSort(_)
\* The stable sort of s under SortCompare, elements taken in array order.
StableSort(s) ==
  IF s = <<>> THEN <<>>
  ELSE InsertSorted(StableSort(SubSeq(s, 1, Len(s) - 1)), s[Len(s)])

Perms(s) ==
  {[i \in 1..Len(s) |-> s[f[i]]] :
     f \in {g \in [1..Len(s) -> 1..Len(s)] : \A i, j \in 1..Len(s) : i # j => g[i] # g[j]}}

\* The arrays (data.projects || []).slice().sort(cmp) can produce: the stable
\* sorted order under a consistent comparator, any order of the elements when
\* an unparseable date makes the comparator inconsistent.
SortOutcomes(s) ==
  IF ConsistentComparator(s) THEN {StableSort(s)} ELSE Perms(s)

\* uniqueTags(items): the distinct tags (the order of the options plays no
\* part in filtering).
uniqueTags(items) == UNION {Range(items[i].tags) : i \in 1..Len(items)}

\* ------------------------------------------------------------------------
\* State
\* ------------------------------------------------------------------------

VARIABLES
  pc,           \* where init() is: "fetch", "json", "loaded" or "failed"
  data,         \* data.projects as fetched (<<>> until init has read it)
  all,          \* the script's `all`
  search,       \* els.search.value
  tagFilter,    \* els.tagFilter.value (<<>> is the "all tags" option)
  showDrafts,   \* els.showDrafts.checked
  showArchived, \* els.showArchived.checked
  showPrivate,  \* els.showPrivate.checked
  tagOptions,   \* the option values init has appended to els.tagFilter
  listeners,    \* the controls whose events call applyFilters
  grid,         \* els.grid: its kind of content and the projects shown as cards
  count,        \* els.count.textContent: the number and whether "s" is appended
  rssLink,      \* els.rssLink.href: whether a feed is attached and its items
  mdSrc,        \* how the markdown input was built (family, link text, link url)
  md,           \* mdToHtml's argument
  lines,        \* mdToHtml's lines
  lineNo,       \* the index in lines of the line the loop takes next
  out,          \* mdToHtml's out: the blocks emitted so far
  inList,       \* mdToHtml's inList
  html,         \* mdToHtml's result
  mdpc          \* where mdToHtml is: "idle", "start", "loop" or "done"

controls == <<search, tagFilter, showDrafts, showArchived, showPrivate>>

pageVars == <<pc, data, all, search, tagFilter, showDrafts, showArchived, showPrivate,
              tagOptions, listeners, grid, count, rssLink>>

mdVars == <<mdSrc, md, lines, lineNo, out, inList, html, mdpc>>

vars == <<pageVars, mdVars>>

Controls == {"search", "tagFilter", "showDrafts", "showArchived", "showPrivate"}

\* ------------------------------------------------------------------------
\* makeRSS, render, applyFilters
\* ------------------------------------------------------------------------

\* makeRSS(items): one <item> per entry of items.slice(0, 30), in order.
makeRSS(items) ==
  [attached |-> TRUE, items |-> SubSeq(items, 1, Min({RssLimit, Len(items)}))]

\* render building the feed from the filtered items instead of `all`.
renderFeedOfItems(allNow, items) ==
  /\ grid' = [kind |-> "cards", cards |-> items]
  /\ count' = [n |-> Len(items), plural |-> Len(items) # 1]
  /\ rssLink' = makeRSS(items)

\* render(items), with `all` as it is when render runs: the grid is emptied and
\* gets one card per item, the count is rewritten, the feed is rebuilt from
\* `all`.
render(allNow, items) ==
  /\ grid' = [kind |-> "cards", cards |-> items]
  /\ count' = [n |-> Len(items), plural |-> Len(items) # 1]
  /\ rssLink' = makeRSS(allNow)

\* The visibility tests with the archived test left out.
visibleNoArchivedTest(p, drafts, archived, private) ==
  /\ ~(p.isPrivate /\ ~private)
  /\ ~(p.isDraft /\ ~drafts)

\* The three visibility tests of applyFilters' filter callback.
visible(p, drafts, archived, private) ==
  /\ ~(p.isPrivate /\ ~private)
  /\ ~(p.isDraft /\ ~drafts)
  /\ ~(p.isArchived /\ ~archived)

\* hay: normalize([p.title, p.description, (p.tags || []).join(" ")].join(" "))
hay(p) ==
  normalize(join(<<p.title, p.description, join(p.tags, <<" ">>)>>, <<" ">>))

\* matchQ && matchTag
matches(p, q, tag) ==
  /\ q = <<>> \/ includes(hay(p), q)
  /\ tag = <<>> \/ tag \in Range(p.tags)

RECURSIVE Reverse(_)
Reverse(s) == IF s = <<>> THEN <<>> ELSE Reverse(Tail(s)) \o <<Head(s)>>

\* A filter that hands the matches over newest last.
filteredReversed(allNow, q, tag, drafts, archived, private) ==
  Reverse(SelectSeq(allNow,
    LAMBDA p : /\ ~(p.isPrivate /\ ~private)
               /\ ~(p.isDraft /\ ~drafts)
               /\ ~(p.isArchived /\ ~archived)
               /\ q = <<>> \/ includes(normalize(join(<<p.title, p.description, join(p.tags, <<" ">>)>>, <<" ">>)), q)
               /\ tag = <<>> \/ tag \in Range(p.tags)))

\* all.filter(...) of applyFilters, q already normalized.
filtered(allNow, q, tag, drafts, archived, private) ==
  SelectSeq(allNow, LAMBDA p : visible(p, drafts, archived, private) /\ matches(p, q, tag))

\* applyFilters(), reading the controls' values given.
applyFilters(allNow, searchNow, tagNow, drafts, archived, private) ==
  render(allNow, filtered(allNow, normalize(searchNow), tagNow, drafts, archived, private))

\* ------------------------------------------------------------------------
\* init
\* ------------------------------------------------------------------------

\* init forgetting to wire #showPrivate.
WiredControlsWithoutPrivate == {"search", "tagFilter", "showDrafts", "showArchived"}

\* The controls init wires to applyFilters.
WiredControls == {"search", "tagFilter", "showDrafts", "showArchived", "showPrivate"}

\* No conversion under way.
MdIdle ==
  /\ mdSrc = [family |-> "none", text |-> <<>>, url |-> <<>>]
  /\ md = <<>>
  /\ lines = <<>>
  /\ lineNo = 0
  /\ out = <<>>
  /\ inList = FALSE
  /\ html = <<>>
  /\ mdpc = "idle"

Init ==
  /\ MdIdle
  /\ pc = "fetch"
  /\ data = <<>>
  /\ all = <<>>
  /\ search \in SearchValues
  /\ tagFilter = <<>>
  /\ showDrafts \in BOOLEAN
  /\ showArchived \in BOOLEAN
  /\ showPrivate \in BOOLEAN
  /\ tagOptions = {}
  /\ listeners = {}
  /\ grid = [kind |-> "initial", cards |-> <<>>]
  /\ count = [n |-> 0, plural |-> TRUE]
  /\ rssLink = [attached |-> FALSE, items |-> <<>>]

\* init wiring the listeners before it has the data.
FetchResolvesWiringEarly ==
  /\ pc = "fetch"
  /\ pc' = "json"
  /\ listeners' = Controls
  /\ UNCHANGED <<data, all, controls, tagOptions, grid, count, rssLink, mdVars>>

\* await fetch("data.json") resolves.
FetchResolves ==
  /\ pc = "fetch"
  /\ pc' = "json"
  /\ UNCHANGED <<data, all, controls, tagOptions, listeners, grid, count, rssLink, mdVars>>

\* The handler of init().catch: the grid becomes the error card.
catchHandler ==
  /\ grid' = [kind |-> "error", cards |-> <<>>]
  /\ UNCHANGED <<data, all, controls, tagOptions, listeners, count, rssLink, mdVars>>

\* await fetch("data.json") rejects.
FetchRejects ==
  /\ pc = "fetch"
  /\ pc' = "failed"
  /\ catchHandler

\* await res.json() rejects: the body is not JSON.
JsonRejects ==
  /\ pc = "json"
  /\ pc' = "failed"
  /\ catchHandler

\* await res.json() resolves; the rest of init runs to its end: sort, tag
\* options, listeners, applyFilters.
JsonResolves ==
  /\ pc = "json"
  /\ \E n \in DataLengths :
     \E d \in {x \in DataSets : Len(x) = n} :
       \E sorted \in SortOutcomes(d) :
         /\ data' = d
         /\ all' = sorted
         /\ tagOptions' = tagOptions \cup uniqueTags(sorted)
         /\ listeners' = listeners \cup WiredControls
         /\ applyFilters(sorted, search, tagFilter, showDrafts, showArchived, showPrivate)
  /\ pc' = "loaded"
  /\ UNCHANGED <<controls, mdVars>>

\* ------------------------------------------------------------------------
\* User events
\* ------------------------------------------------------------------------

\* An event on a control: applyFilters runs if init has wired the control, and
\* reads the controls as the event left them.
dispatch(control) ==
  IF control \in listeners
  THEN applyFilters(all, search', tagFilter', showDrafts', showArchived', showPrivate')
  ELSE UNCHANGED <<grid, count, rssLink>>

\* "input" on #search
InputSearch ==
  /\ \E v \in SearchValues : search' = v
  /\ UNCHANGED <<tagFilter, showDrafts, showArchived, showPrivate>>
  /\ dispatch("search")
  /\ UNCHANGED <<pc, data, all, tagOptions, listeners, mdVars>>

\* "change" on #tagFilter: the user picks one of the options.
ChangeTag ==
  /\ \E t \in tagOptions \cup {<<>>} : tagFilter' = t
  /\ UNCHANGED <<search, showDrafts, showArchived, showPrivate>>
  /\ dispatch("tagFilter")
  /\ UNCHANGED <<pc, data, all, tagOptions, listeners, mdVars>>

\* "change" on #showDrafts
ToggleDrafts ==
  /\ showDrafts' = ~showDrafts
  /\ UNCHANGED <<search, tagFilter, showArchived, showPrivate>>
  /\ dispatch("showDrafts")
  /\ UNCHANGED <<pc, data, all, tagOptions, listeners, mdVars>>

\* "change" on #showArchived
ToggleArchived ==
  /\ showArchived' = ~showArchived
  /\ UNCHANGED <<search, tagFilter, showDrafts, showPrivate>>
  /\ dispatch("showArchived")
  /\ UNCHANGED <<pc, data, all, tagOptions, listeners, mdVars>>

\* "change" on #showPrivate
TogglePrivate ==
  /\ showPrivate' = ~showPrivate
  /\ UNCHANGED <<search, tagFilter, showDrafts, showArchived>>
  /\ dispatch("showPrivate")
  /\ UNCHANGED <<pc, data, all, tagOptions, listeners, mdVars>>

Next ==
  \/ FetchResolves
  \/ FetchRejects
  \/ JsonResolves
  \/ JsonRejects
  \/ InputSearch
  \/ ChangeTag
  \/ ToggleDrafts
  \/ ToggleArchived
  \/ TogglePrivate

Spec == Init /\ [][Next]_vars

\* ------------------------------------------------------------------------
\* mdToHtml as a state machine (specification SpecMd)
\* ------------------------------------------------------------------------

RECURSIVE Flatten(_)
Flatten(parts) == IF parts = <<>> THEN <<>> ELSE Head(parts) \o Flatten(Tail(parts))

\* Pieces of one markdown line: the characters esc rewrites, the delimiters of
\* the two inline rewrites, and "](/" which opens a url the link rewrite lets
\* through.
InlineTokens ==
  { <<"<">>, <<">">>, <<"\"">>, <<"&">>, <<Backtick>>, <<"[">>, <<"]", "(", "/">>, <<")">> }

FreeInputs == {Flatten(ts) : ts \in SeqsUpTo(InlineTokens, MaxInline)}

\* Link texts: at least one character, none of them "]" or a backtick.
TextChars == {"a", "&", "<", "\"", " "}

LinkTexts == SeqsUpTo(TextChars, MaxText) \ {<<>>}

\* Link urls: optional leading space, a scheme or path prefix, a tail.
UrlPrefixes ==
  { <<"h", "t", "t", "p", ":", "/", "/">>, <<"h", "t", "t", "p", "s", ":", "/", "/">>, <<"/">>, <<".", "/">>, <<".", ".", "/">>, <<"/", "/">>,
    <<"j", "a", "v", "a", "s", "c", "r", "i", "p", "t", ":">>, <<"d", "a", "t", "a", ":">>, <<"a">>, <<".">>, <<"h", "t", "t">> }

UrlTails == { <<>>, <<"a">>, <<"\"">>, <<"&">> }

LinkUrls ==
  {sp \o pre \o tail : sp \in {<<>>, <<" ">>}, pre \in UrlPrefixes, tail \in UrlTails}

\* The markdown of a line that is one link: [text](url)
LinkMd(text, url) == <<"[">> \o text \o <<"]", "(">> \o url \o <<")">>

\* Lines of a document: list items (one ending in CR, so that joining gives
\* CRLF), near-misses of list items, blank lines, headings, a quote, text.
LineKinds ==
  { <<"-", " ", "a">>, <<"*", " ", "b", "\r">>, <<"-", "a">>, <<>>, <<" ">>, <<"#", " ", "a">>, <<"#", "#", " ", "a">>,
    <<"#", "#", "#", " ", "a">>, <<">", " ", "a">>, <<"a">> }

BlockInputs == {join(rows, <<"\n">>) : rows \in SeqsUpTo(LineKinds, MaxLines)}

InitMd ==
  /\ pc = "fetch"
  /\ data = <<>>
  /\ all = <<>>
  /\ search = <<>>
  /\ tagFilter = <<>>
  /\ showDrafts = FALSE
  /\ showArchived = FALSE
  /\ showPrivate = FALSE
  /\ tagOptions = {}
  /\ listeners = {}
  /\ grid = [kind |-> "initial", cards |-> <<>>]
  /\ count = [n |-> 0, plural |-> TRUE]
  /\ rssLink = [attached |-> FALSE, items |-> <<>>]
  /\ \/ /\ md \in FreeInputs
        /\ mdSrc = [family |-> "free", text |-> <<>>, url |-> <<>>]
     \/ /\ md \in BlockInputs
        /\ mdSrc = [family |-> "block", text |-> <<>>, url |-> <<>>]
     \/ \E text \in LinkTexts, url \in LinkUrls :
          /\ md = LinkMd(text, url)
          /\ mdSrc = [family |-> "link", text |-> text, url |-> url]
  /\ lines = <<>>
  /\ lineNo = 0
  /\ out = <<>>
  /\ inList = FALSE
  /\ html = <<>>
  /\ mdpc = "start"

\* The line the loop takes next, after raw.trimEnd().
Line == trimEnd(lines[lineNo])

InLoop == mdpc = "loop" /\ lineNo <= Len(lines)

IsBlank(line) == trim(line) = <<>>

IsQuote(line) == startsWith(trim(line), <<">">>)

\* What every loop step leaves alone, and the move to the next line.
NextLine ==
  /\ lineNo' = lineNo + 1
  /\ UNCHANGED <<mdSrc, md, lines, html, mdpc, pageVars>>

\* The first statements of mdToHtml: lines, out, inList.
MdStart ==
  /\ mdpc = "start"
  /\ lines' = split(replaceCrLf(md), "\n")
  /\ lineNo' = 1
  /\ out' = <<>>
  /\ inList' = FALSE
  /\ mdpc' = "loop"
  /\ UNCHANGED <<mdSrc, md, html, pageVars>>

\* if (!line.trim()) { closeList(); continue; }
BlankLine ==
  /\ InLoop
  /\ IsBlank(Line)
  /\ out' = closeList(out, inList)
  /\ inList' = FALSE
  /\ NextLine

\* Blockquote
QuoteLine ==
  /\ InLoop
  /\ ~IsBlank(Line)
  /\ IsQuote(Line)
  /\ out' = Append(closeList(out, inList),
                   wrap(<<"<", "b", "l", "o", "c", "k", "q", "u", "o", "t", "e", ">">>, inline(quoteText(Line)), <<"<", "/", "b", "l", "o", "c", "k", "q", "u", "o", "t", "e", ">">>))
  /\ inList' = FALSE
  /\ NextLine

\* ### heading
Heading3Line ==
  /\ InLoop
  /\ ~IsBlank(Line)
  /\ ~IsQuote(Line)
  /\ \E t \in h3Match(Line) :
       out' = Append(closeList(out, inList), wrap(<<"<", "h", "3", ">">>, inline(t), <<"<", "/", "h", "3", ">">>))
  /\ inList' = FALSE
  /\ NextLine

\* ## heading
Heading2Line ==
  /\ InLoop
  /\ ~IsBlank(Line)
  /\ ~IsQuote(Line)
  /\ h3Match(Line) = {}
  /\ \E t \in h2Match(Line) :
       out' = Append(closeList(out, inList), wrap(<<"<", "h", "2", ">">>, inline(t), <<"<", "/", "h", "2", ">">>))
  /\ inList' = FALSE
  /\ NextLine

\* # heading
Heading1Line ==
  /\ InLoop
  /\ ~IsBlank(Line)
  /\ ~IsQuote(Line)
  /\ h3Match(Line) = {}
  /\ h2Match(Line) = {}
  /\ \E t \in h1Match(Line) :
       out' = Append(closeList(out, inList), wrap(<<"<", "h", "1", ">">>, inline(t), <<"<", "/", "h", "1", ">">>))
  /\ inList' = FALSE
  /\ NextLine

IsHeading(line) == h3Match(line) # {} \/ h2Match(line) # {} \/ h1Match(line) # {}

\* Unordered list item: "<ul>" first when no list is open.
ListLine ==
  /\ InLoop
  /\ ~IsBlank(Line)
  /\ ~IsQuote(Line)
  /\ ~IsHeading(Line)
  /\ \E t \in liMatch(Line) :
       out' = Append(IF inList THEN out ELSE Append(out, <<"<", "u", "l", ">">>),
                     wrap(<<"<", "l", "i", ">">>, inline(t), <<"<", "/", "l", "i", ">">>))
  /\ inList' = TRUE
  /\ NextLine

\* Paragraph
ParagraphLine ==
  /\ InLoop
  /\ ~IsBlank(Line)
  /\ ~IsQuote(Line)
  /\ ~IsHeading(Line)
  /\ liMatch(Line) = {}
  /\ out' = Append(closeList(out, inList), wrap(<<"<", "p", ">">>, inline(Line), <<"<", "/", "p", ">">>))
  /\ inList' = FALSE
  /\ NextLine

\* After the loop: closeList(); return out.join("\n")
MdReturn ==
  /\ mdpc = "loop"
  /\ lineNo > Len(lines)
  /\ out' = closeList(out, inList)
  /\ inList' = FALSE
  /\ html' = join(out', <<"\n">>)
  /\ mdpc' = "done"
  /\ UNCHANGED <<mdSrc, md, lines, lineNo, pageVars>>

NextMd ==
  \/ MdStart
  \/ BlankLine
  \/ QuoteLine
  \/ Heading3Line
  \/ Heading2Line
  \/ Heading1Line
  \/ ListLine
  \/ ParagraphLine
  \/ MdReturn

SpecMd == InitMd /\ [][NextMd]_vars

\* ------------------------------------------------------------------------
\* Properties of the page (specification Spec)
\* ------------------------------------------------------------------------

Cards == grid.cards

Shown(p) == p \in Range(Cards)

\* C1: after a successful load, whatever events followed, every project shown
\* in the grid has each of its flags allowed by the corresponding toggle:
\* isPrivate implies showPrivate, isDraft implies showDrafts, isArchived
\* implies showArchived, each tested on its own.
C1_ShownRespectsToggles ==
  pc = "loaded" =>
    \A i \in 1..Len(Cards) :
      /\ Cards[i].isPrivate => showPrivate
      /\ Cards[i].isDraft => showDrafts
      /\ Cards[i].isArchived => showArchived

\* A project carrying all three flags is loaded and hidden by one unchecked
\* toggle alone, while other projects are shown.
C1_Witness ==
  /\ pc = "loaded"
  /\ showDrafts /\ showArchived /\ ~showPrivate
  /\ \E i \in 1..Len(all) : all[i].isPrivate /\ all[i].isDraft /\ all[i].isArchived
  /\ Cards # <<>>

\* x >= y on JavaScript numbers: false when either is NaN.
Geq(x, y) == ~x.nan /\ ~y.nan /\ x.ms >= y.ms

Count(s, x) == Cardinality({i \in 1..Len(s) : s[i] = x})

IsPermutation(s, t) ==
  /\ Len(s) = Len(t)
  /\ \A x \in Range(s) \cup Range(t) : Count(s, x) = Count(t, x)

\* C2: after init, `all` is a permutation of data.projects in which each
\* entry's date timestamp is >= that of the next entry, a project without
\* date counting as timestamp 0.
C2_SortedDescending ==
  pc = "loaded" =>
    /\ IsPermutation(all, data)
    /\ \A i \in 1..(Len(all) - 1) : Geq(dateKey(all[i]), dateKey(all[i + 1]))

RECURSIVE IsSubsequence(_, _)
\* s is t with some entries left out, the order kept.
IsSubsequence(s, t) ==
  IF s = <<>> THEN TRUE
  ELSE IF t = <<>> THEN FALSE
  ELSE IF Head(s) = Head(t) THEN IsSubsequence(Tail(s), Tail(t))
  ELSE IsSubsequence(s, Tail(t))

\* C3: once loaded, no event changes `all`, and the cards shown are always a
\* subsequence of `all` in `all`'s order.
C3_AllFrozenViewSubsequence ==
  /\ [](IsSubsequence(Cards, all))
  /\ [][pc = "loaded" => all' = all]_vars

\* Several cards are shown, and they are not all of `all`.
C3_Witness ==
  /\ pc = "loaded"
  /\ Len(Cards) >= 2
  /\ Len(Cards) < Len(all)

\* C6: once init has completed, after every event the cards are the filter of
\* `all` under the five controls as they are now (this includes the
\* applyFilters that ends init); an event before init has completed changes
\* the control only.
C6_ViewFollowsControls ==
  /\ [](pc = "loaded" =>
          /\ grid.kind = "cards"
          /\ Cards = filtered(all, normalize(search), tagFilter,
                              showDrafts, showArchived, showPrivate))
  /\ [][(pc \in {"fetch", "json"} /\ pc' = pc) =>
          UNCHANGED <<all, tagOptions, listeners, grid, count, rssLink>>]_vars

\* A search text and a tag are both set (a tag can only be picked after init)
\* and cards are shown.
C6_Witness ==
  /\ pc = "loaded"
  /\ search # <<>>
  /\ tagFilter # <<>>
  /\ ~showPrivate
  /\ Cards # <<>>
  /\ Len(Cards) < Len(all)

\* C7: when the fetch rejects or the body is not JSON, the grid holds the
\* error card, `all` is empty and no listener is registered; no later event
\* replaces the error card.
C7_ErrorPath ==
  /\ [](pc = "failed" => grid.kind = "error" /\ all = <<>> /\ listeners = {})
  /\ [][grid.kind = "error" => grid'.kind = "error"]_vars

\* init has failed and the user has since typed a search text.
C7_Witness ==
  /\ pc = "failed"
  /\ grid.kind = "error"
  /\ search # <<>>
  /\ showDrafts /\ showArchived /\ showPrivate

PassesToggles(p) ==
  /\ p.isPrivate => showPrivate
  /\ p.isDraft => showDrafts
  /\ p.isArchived => showArchived

TagSelected(p) == tagFilter = <<>> \/ \E k \in 1..Len(p.tags) : p.tags[k] = tagFilter

\* C8 as stated: among the projects that pass the toggles, the ones shown are
\* those whose lower-cased concatenation of title, description and
\* space-joined tags contains the lower-cased, trimmed search text (or the
\* text is empty) and whose tags hold the selected tag (or none is selected).
C8_SearchOverConcatenation ==
  pc = "loaded" =>
    \A i \in 1..Len(all) :
      PassesToggles(all[i]) =>
        (Shown(all[i]) <=>
           /\ \/ trim(toLowerCase(search)) = <<>>
              \/ includes(toLowerCase(all[i].title \o all[i].description
                                        \o join(all[i].tags, <<" ">>)),
                          trim(toLowerCase(search)))
           /\ TagSelected(all[i]))

\* C8 amended: the text searched is title, description and space-joined tags
\* with one space between each two of them, lower-cased. With empty search,
\* no tag and all three toggles checked, the cards are `all`.
C8_SearchOverSpaceJoined ==
  pc = "loaded" =>
    /\ \A i \in 1..Len(all) :
         PassesToggles(all[i]) =>
           (Shown(all[i]) <=>
              /\ \/ trim(toLowerCase(search)) = <<>>
                 \/ includes(toLowerCase(all[i].title \o <<" ">> \o all[i].description
                                           \o <<" ">> \o join(all[i].tags, <<" ">>)),
                             trim(toLowerCase(search)))
              /\ TagSelected(all[i]))
    /\ (search = <<>> /\ tagFilter = <<>> /\ showDrafts /\ showArchived /\ showPrivate)
         => Cards = all

\* A search text with capitals and outer spaces that matches across the
\* space between description and tags, with a tag selected.
C8_Witness ==
  /\ pc = "loaded"
  /\ search = <<" ", "B", " ", "x">>
  /\ tagFilter = <<"x">>
  /\ Cards # <<>>
  /\ Len(Cards) < Len(all)

\* C10: the feed attached by every render holds the first 30 entries of
\* `all`, in order, whatever the five controls say: no event changes its
\* items, and flagged projects stay in it while the toggles hide them.
C10_FeedFromAll ==
  /\ [](pc = "loaded" =>
          /\ rssLink.attached
          /\ rssLink.items = [i \in 1..(IF Len(all) < 30 THEN Len(all) ELSE 30) |-> all[i]])
  /\ [][pc = "loaded" => rssLink'.items = rssLink.items]_vars

\* More than 30 projects are loaded, the feed holds 30, one of them private
\* while the private toggle is off and the grid shows fewer cards than the feed.
C10_Witness ==
  /\ pc = "loaded"
  /\ Len(all) > 30
  /\ Len(rssLink.items) = 30
  /\ ~showPrivate
  /\ \E i \in 1..Len(rssLink.items) : rssLink.items[i].isPrivate
  /\ Len(Cards) < Len(rssLink.items)

\* ------------------------------------------------------------------------
\* Properties of mdToHtml (specification SpecMd)
\* ------------------------------------------------------------------------

\* The tags mdToHtml writes that carry no attribute.
PlainTags ==
  { <<"<", "h", "1", ">">>, <<"<", "/", "h", "1", ">">>, <<"<", "h", "2", ">">>, <<"<", "/", "h", "2", ">">>, <<"<", "h", "3", ">">>, <<"<", "/", "h", "3", ">">>,
    <<"<", "p", ">">>, <<"<", "/", "p", ">">>, <<"<", "u", "l", ">">>, <<"<", "/", "u", "l", ">">>, <<"<", "l", "i", ">">>, <<"<", "/", "l", "i", ">">>,
    <<"<", "b", "l", "o", "c", "k", "q", "u", "o", "t", "e", ">">>, <<"<", "/", "b", "l", "o", "c", "k", "q", "u", "o", "t", "e", ">">>,
    <<"<", "c", "o", "d", "e", ">">>, <<"<", "/", "c", "o", "d", "e", ">">>, <<"<", "/", "a", ">">> }

AnchorOpen == <<"<", "a", " ", "h", "r", "e", "f", "=", "\"">>

AnchorRest == <<"\"", " ", "t", "a", "r", "g", "e", "t", "=", "\"", "_", "b", "l", "a", "n", "k", "\"", " ", "r", "e", "l", "=", "\"", "n", "o", "r", "e", "f", "e", "r", "r", "e", "r", "\"", ">">>

RECURSIVE OnlyConverterTags(_, _)
\* From position i on, every "<", ">" and double quote of s belongs to a tag
\* mdToHtml writes: a plain tag, or <a href="..." target="_blank"
\* rel="noreferrer"> whose href value holds none of the three characters.
OnlyConverterTags(s, i) ==
  IF i > Len(s) THEN TRUE
  ELSE IF s[i] = "<"
       THEN IF \E t \in PlainTags : StartsWithAt(s, t, i)
            THEN OnlyConverterTags(s, i + Len(CHOOSE t \in PlainTags : StartsWithAt(s, t, i)))
            ELSE IF StartsWithAt(s, AnchorOpen, i)
                 THEN LET q == IndexFrom(s, "\"", i + Len(AnchorOpen))
                      IN /\ q # 0
                         /\ \A k \in (i + Len(AnchorOpen))..(q - 1) : s[k] \notin {"<", ">"}
                         /\ StartsWithAt(s, AnchorRest, q)
                         /\ OnlyConverterTags(s, q + Len(AnchorRest))
                 ELSE FALSE
       ELSE IF s[i] \in {">", "\""} THEN FALSE
       ELSE OnlyConverterTags(s, i + 1)

\* C4: no "<", ">" or double quote of the input reaches the output raw: in
\* the result of mdToHtml each of these characters is part of a tag the
\* converter itself writes (h1, h2, h3, p, ul, li, blockquote, code, a), also
\* where the inline-code and link rewrites have worked on the text.
C4_NoRawHtml ==
  mdpc = "done" => OnlyConverterTags(html, 1)

\* A link whose text holds "<" and a double quote and whose url holds a
\* double quote became an anchor: the link rewrite ran on text and on a url
\* that esc had to escape.
C4_Witness ==
  /\ mdpc = "done"
  /\ mdSrc.family = "link"
  /\ {"<", "\""} \subseteq Range(mdSrc.text)
  /\ "\"" \in Range(mdSrc.url)
  /\ includes(html, AnchorOpen)

\* The url test as the claim words it, on the url as written in the markdown.
StartsWithSafePrefix(url) ==
  LET u == trim(url)
  IN \E pre \in { <<"h", "t", "t", "p", ":", "/", "/">>, <<"h", "t", "t", "p", "s", ":", "/", "/">>, <<"/">>, <<".", "/">>, <<".", ".", "/">> } :
       Len(pre) <= Len(u) /\ SubSeq(u, 1, Len(pre)) = pre

\* A text as HTML: each of & < > and the double quote as its entity, once.
HtmlChar(c) ==
  CASE c = "&" -> <<"&", "a", "m", "p", ";">>
    [] c = "<" -> <<"&", "l", "t", ";">>
    [] c = ">" -> <<"&", "g", "t", ";">>
    [] c = "\"" -> <<"&", "q", "u", "o", "t", ";">>
    [] OTHER -> <<c>>

HtmlText(t) == Flatten([i \in 1..Len(t) |-> HtmlChar(t[i])])

HasAnchor == includes(html, <<"<", "a", " ">>)

\* C5: a line that is one link [text](url) gives an <a> element only when the
\* trimmed url starts with http://, https://, /, ./ or ../; for any other url
\* there is no anchor and the output is the link text alone.
C5_AnchorOnlyForSafeUrl ==
  (mdpc = "done" /\ mdSrc.family = "link") =>
    /\ HasAnchor => StartsWithSafePrefix(mdSrc.url)
    /\ ~StartsWithSafePrefix(mdSrc.url) =>
         /\ ~HasAnchor
         /\ html = <<"<", "p", ">">> \o HtmlText(mdSrc.text) \o <<"<", "/", "p", ">">>

\* The part of C5 that the code keeps: the anchor is written exactly for the
\* urls with a safe prefix, and without one nothing of the url is written.
C5_AnchorIffSafePrefix ==
  (mdpc = "done" /\ mdSrc.family = "link") =>
    /\ HasAnchor <=> StartsWithSafePrefix(mdSrc.url)
    /\ ~StartsWithSafePrefix(mdSrc.url) =>
         html = <<"<", "p", ">">> \o HtmlText(HtmlText(mdSrc.text)) \o <<"<", "/", "p", ">">>

ListOpen == <<"<", "u", "l", ">">>

ListClose == <<"<", "/", "u", "l", ">">>

RECURSIVE ScanLists(_, _, _)
\* Reads blocks from i on with a list open or not: "bad" when a <ul> opens
\* inside a list, a </ul> or <li> comes outside one, or any other block comes
\* inside one; otherwise whether a list is open at the end.
ScanLists(blocks, i, open) ==
  IF i > Len(blocks) THEN (IF open THEN "open" ELSE "closed")
  ELSE IF blocks[i] = ListOpen
       THEN (IF open THEN "bad" ELSE ScanLists(blocks, i + 1, TRUE))
  ELSE IF blocks[i] = ListClose
       THEN (IF open THEN ScanLists(blocks, i + 1, FALSE) ELSE "bad")
  ELSE IF startsWith(blocks[i], <<"<", "l", "i", ">">>)
       THEN (IF open THEN ScanLists(blocks, i + 1, TRUE) ELSE "bad")
  ELSE (IF open THEN "bad" ELSE ScanLists(blocks, i + 1, FALSE))

\* A raw line that is a list item: "-" or "*" first, whitespace next, text
\* after it.
IsListItem(raw) ==
  LET l == trimEnd(raw)
  IN Len(l) >= 3 /\ l[1] \in {"-", "*"} /\ IsSpace(l[2])

\* C9: the blocks mdToHtml emits hold balanced lists that do not nest: <ul>
\* and </ul> alternate, every <li> lies inside a list and every heading,
\* blockquote and paragraph outside; a list is open after a line exactly when
\* the line is a list item, and none is open in the result.
C9_ListsBalanced ==
  /\ [](ScanLists(out, 1, FALSE) = (IF inList THEN "open" ELSE "closed"))
  /\ [](mdpc = "done" => ~inList /\ ScanLists(split(html, "\n"), 1, FALSE) = "closed")
  /\ [][(mdpc = "loop" /\ lineNo' = lineNo + 1) =>
          (inList' <=> IsListItem(lines[lineNo]))]_vars

\* The result holds two lists, the first closed by a line between them.
C9_Witness ==
  /\ mdpc = "done"
  /\ Cardinality({i \in 1..Len(out) : out[i] = ListOpen}) >= 2
  /\ Cardinality({i \in 1..Len(out) : out[i] = ListClose}) >= 2

====
